---- MODULE Spec2Model ----
(***************************************************************************)
(* Quality Gate report (src/src/quality/gate.py), the export/retry loop    *)
(* (src/src/aggregation/export.py), the hierarchical validator            *)
(* (src/src/validation/hierarchical_validator.py), the crew lifecycle of   *)
(* the orchestrator (src/src/workflows/hierarchical_orchestrator.py) and   *)
(* HierarchicalWorkflow.execute (src/src/workflows/hierarchical_workflow.py) *)
(* of the dokumen pipeline.                                                *)
(*                                                                         *)
(* Numbers are fixed point so that the float arithmetic of the source is   *)
(* exact in the model:                                                     *)
(*   depth_score            tenths            (8.0  -> 80)                 *)
(*   technical_feasibility  hundredths of a % (100.0 -> 10000)             *)
(*   logic_consistency      tenths            (it is a float field)        *)
(*   maturity_score         hundredths        (9.15 -> 915)                *)
(*   edge_case_coverage, ai_speak_instances   plain integers               *)
(***************************************************************************)
EXTENDS Integers, Sequences, FiniteSets, TLC

VARIABLES
    \* ---- a QualityGateReport under construction and use (ReportSpec) ----
    kwargs,        \* keyword arguments handed to QualityGateReport(...)
    report,        \* <<>> before construction or after a failed one, else <<r>>
    construct,     \* "pending" | "ok" | "ValidationError"
    seen_passed,   \* <<>> or <<b>>: last value read from passed_quality_gate
    seen_reasons,  \* <<>> or <<list>>: last value read from failure_reasons
    dumped,        \* <<>> or <<dict>>: last model_dump()
    \* ---- one call of export_sdd (Spec) ----
    call,          \* the arguments of the call
    pc,            \* position inside export_sdd
    retry,         \* the loop variable of `for retry in range(max_retries)`
    mock_content,  \* <<>> or <<content>>: template.format(**aggregated_data)
    quality_report,\* <<>> while unbound, else <<last report>>
    final_content, \* <<>> or <<content with the badge injected>>
    attempts,      \* the reports of the gate evaluations made so far, in order
    files,         \* the files written: [document, quality_report], each <<>> or <<file>>
    result,        \* <<>> or <<returned dict>>
    error,         \* "none" or the name of the exception that left export_sdd
    \* ---- one call of validate_hierarchical_result (ValidatorSpec) ----
    triple,        \* <<>> or <<result dict>>: happy_path and the two stress reports
    validator_result, \* <<>> or <<[is_valid, issues]>>: what the validator returned
    \* ---- one HierarchicalOrchestrator (OrchestratorSpec) ----
    crew,          \* self.crew: <<>> for None, else <<[agents, tasks]>>
    kickoffs,      \* number of crew.kickoff() calls made so far
    last_call,     \* the last method called and how it ended
    \* ---- one call of HierarchicalWorkflow.execute (WorkflowSpec) ----
    config,        \* self.config: [enable_phase4_export, phase4_enforce_quality_gate]
    sdd_template,  \* the module constant SDD_TEMPLATE
    workflow_pc,   \* position inside execute
    parsed_result, \* the keys execute adds: [validation, phase4_export], each <<>> or <<v>>
    workflow_error \* "none" or the name of the exception that left execute

report_vars == <<kwargs, report, construct, seen_passed, seen_reasons, dumped>>
export_vars == <<call, pc, retry, mock_content, quality_report, final_content,
                 attempts, files, result, error>>
validator_vars == <<triple, validator_result>>
orchestrator_vars == <<crew, kickoffs, last_call>>
workflow_vars == <<config, sdd_template, workflow_pc, parsed_result, workflow_error>>
vars == <<kwargs, report, construct, seen_passed, seen_reasons, dumped,
          call, pc, retry, mock_content, quality_report, final_content,
          attempts, files, result, error,
          triple, validator_result, crew, kickoffs, last_call,
          config, sdd_template, workflow_pc, parsed_result, workflow_error>>

\* ------------------------------------------------------------------------
\* Bounds of the model
\* ------------------------------------------------------------------------
MaxEdgeCoverage == 6
MaxAiSpeak == 5
MaxContradictions == 6
MaxRetries == 3
ListLen == 5
MaxKickoffs == 3

\* ------------------------------------------------------------------------
\* QualityThreshold (gate.py 17-23)
\* ------------------------------------------------------------------------
DEPTH_SCORE_MIN == 80
EDGE_CASE_MIN == 5
TECHNICAL_FEASIBILITY == 10000
LOGIC_CONSISTENCY == 0
NO_AI_SPEAK == 0

Min(a, b) == IF a < b THEN a ELSE b
Max(a, b) == IF a > b THEN a ELSE b

\* Python round(x, 2) on x = m4 / 10000, result in hundredths: nearest, ties to even.
Round2(m4) ==
    LET q == m4 \div 100
        r == m4 % 100
    IN  IF r < 50 THEN q
        ELSE IF r > 50 THEN q + 1
        ELSE IF q % 2 = 0 THEN q ELSE q + 1

\* ------------------------------------------------------------------------
\* QualityGateReport (gate.py 26-106)
\* ------------------------------------------------------------------------

\* @model_validator(mode='before'): runs on the raw keyword arguments, before
\* any field is validated, and overwrites data['maturity_score'].
calculate_maturity_score_KeepsSupplied(data) ==
    LET edge_score4 == Min(2 * data.edge_case_coverage, 10) * 2500
        consistency4 == Max(10000 - 200 * data.logic_consistency, 0)
        clarity4 == Max(5 - data.ai_speak_instances, 0) * 500
        maturity4 == data.depth_score * 400 + edge_score4
                     + data.technical_feasibility * 2 + consistency4 + clarity4
    IN  IF data.maturity_score # 0 THEN data
        ELSE [data EXCEPT !.maturity_score = Round2(maturity4)]

calculate_maturity_score_FeasibilityUnscaled(data) ==
    LET edge_score4 == Min(2 * data.edge_case_coverage, 10) * 2500
        consistency4 == Max(10000 - 200 * data.logic_consistency, 0)
        clarity4 == Max(5 - data.ai_speak_instances, 0) * 500
        maturity4 == data.depth_score * 400 + edge_score4
                     + data.technical_feasibility * 20 + consistency4 + clarity4
    IN  [data EXCEPT !.maturity_score = Round2(maturity4)]

calculate_maturity_score_ConsistencyNotInverted(data) ==
    LET edge_score4 == Min(2 * data.edge_case_coverage, 10) * 2500
        consistency4 == Min(200 * data.logic_consistency, 10000)
        clarity4 == Max(5 - data.ai_speak_instances, 0) * 500
        maturity4 == data.depth_score * 400 + edge_score4
                     + data.technical_feasibility * 2 + consistency4 + clarity4
    IN  [data EXCEPT !.maturity_score = Round2(maturity4)]

calculate_maturity_score_ClarityTen(data) ==
    LET edge_score4 == Min(2 * data.edge_case_coverage, 10) * 2500
        consistency4 == Max(10000 - 200 * data.logic_consistency, 0)
        clarity4 == Max(10 - data.ai_speak_instances, 0) * 500
        maturity4 == data.depth_score * 400 + edge_score4
                     + data.technical_feasibility * 2 + consistency4 + clarity4
    IN  [data EXCEPT !.maturity_score = Round2(maturity4)]

calculate_maturity_score(data) ==
    LET \* edge_score = min(edge_cases / 5 * 10, 10), times its weight 0.25
        edge_score4 == Min(2 * data.edge_case_coverage, 10) * 2500
        \* consistency_score = max(10 - contradictions * 2, 0), times 0.10
        consistency4 == Max(10000 - 200 * data.logic_consistency, 0)
        \* clarity_score = max(5 - ai_speak, 0), times 0.05
        clarity4 == Max(5 - data.ai_speak_instances, 0) * 500
        \* depth * 0.40 + ... + feasibility / 10 * 0.20 + ..., in 1/10000
        maturity4 == data.depth_score * 400 + edge_score4
                     + data.technical_feasibility * 2 + consistency4 + clarity4
    IN  [data EXCEPT !.maturity_score = Round2(maturity4)]

\* The Field(...) constraints, checked after the 'before' validator.
FieldConstraints_NoUpperBound(data) ==
    /\ data.depth_score >= 0
    /\ data.edge_case_coverage >= 0
    /\ data.technical_feasibility >= 0
    /\ data.logic_consistency >= 0
    /\ data.ai_speak_instances >= 0
    /\ data.maturity_score >= 0 /\ data.maturity_score <= 1000

FieldConstraints(data) ==
    /\ data.depth_score >= 0 /\ data.depth_score <= 100
    /\ data.edge_case_coverage >= 0
    /\ data.technical_feasibility >= 0 /\ data.technical_feasibility <= 10000
    /\ data.logic_consistency >= 0
    /\ data.ai_speak_instances >= 0
    /\ data.maturity_score >= 0 /\ data.maturity_score <= 1000

\* QualityGateReport(**data): <<r>> for the constructed report, <<>> when
\* pydantic raises ValidationError.
QualityGateReport_ClampsDepth(data) ==
    LET validated == calculate_maturity_score(data)
        clamped == [validated EXCEPT !.depth_score = Max(0, Min(validated.depth_score, 100))]
    IN  IF FieldConstraints(clamped) THEN <<clamped>> ELSE <<>>

QualityGateReport(data) ==
    LET validated == calculate_maturity_score(data)
    IN  IF FieldConstraints(validated) THEN <<validated>> ELSE <<>>

passed_quality_gate_StrictDepth(self) ==
    /\ self.depth_score > DEPTH_SCORE_MIN
    /\ self.edge_case_coverage >= EDGE_CASE_MIN
    /\ self.technical_feasibility >= TECHNICAL_FEASIBILITY
    /\ self.logic_consistency = LOGIC_CONSISTENCY
    /\ self.ai_speak_instances = NO_AI_SPEAK

passed_quality_gate(self) ==
    /\ self.depth_score >= DEPTH_SCORE_MIN
    /\ self.edge_case_coverage >= EDGE_CASE_MIN
    /\ self.technical_feasibility >= TECHNICAL_FEASIBILITY
    /\ self.logic_consistency = LOGIC_CONSISTENCY
    /\ self.ai_speak_instances = NO_AI_SPEAK

\* One reason string: the text it starts with (or, for the "Found ..."
\* strings, ends with) and the value it prints.
Reason(text, value) == [text |-> text, value |-> value]

failure_reasons_NoFeasibility(self) ==
    (IF self.depth_score < DEPTH_SCORE_MIN
        THEN <<Reason("depth_score", self.depth_score)>> ELSE <<>>)
    \o (IF self.edge_case_coverage < EDGE_CASE_MIN
        THEN <<Reason("edge_cases", self.edge_case_coverage)>> ELSE <<>>)
    \o (IF self.logic_consistency > LOGIC_CONSISTENCY
        THEN <<Reason("logic contradictions", self.logic_consistency)>> ELSE <<>>)
    \o (IF self.ai_speak_instances > NO_AI_SPEAK
        THEN <<Reason("AI-speak instances", self.ai_speak_instances)>> ELSE <<>>)

failure_reasons_FirstOnly(self) ==
    IF self.depth_score < DEPTH_SCORE_MIN
        THEN <<Reason("depth_score", self.depth_score)>>
    ELSE IF self.edge_case_coverage < EDGE_CASE_MIN
        THEN <<Reason("edge_cases", self.edge_case_coverage)>>
    ELSE IF self.technical_feasibility < TECHNICAL_FEASIBILITY
        THEN <<Reason("Technical feasibility", self.technical_feasibility)>>
    ELSE IF self.logic_consistency > LOGIC_CONSISTENCY
        THEN <<Reason("logic contradictions", self.logic_consistency)>>
    ELSE IF self.ai_speak_instances > NO_AI_SPEAK
        THEN <<Reason("AI-speak instances", self.ai_speak_instances)>>
    ELSE <<>>

failure_reasons(self) ==
    (IF self.depth_score < DEPTH_SCORE_MIN
        THEN <<Reason("depth_score", self.depth_score)>> ELSE <<>>)
    \o (IF self.edge_case_coverage < EDGE_CASE_MIN
        THEN <<Reason("edge_cases", self.edge_case_coverage)>> ELSE <<>>)
    \o (IF self.technical_feasibility < TECHNICAL_FEASIBILITY
        THEN <<Reason("Technical feasibility", self.technical_feasibility)>> ELSE <<>>)
    \o (IF self.logic_consistency > LOGIC_CONSISTENCY
        THEN <<Reason("logic contradictions", self.logic_consistency)>> ELSE <<>>)
    \o (IF self.ai_speak_instances > NO_AI_SPEAK
        THEN <<Reason("AI-speak instances", self.ai_speak_instances)>> ELSE <<>>)

\* BaseModel.model_dump(): a dict of the stored fields.
model_dump(self) == self

\* ---- inputs of a direct construction ----
DepthValues == {-5, 0, 40, 75, 80, 85, 100, 105}
FeasibilityValues == {-1, 0, 5000, 9500, 10000, 10001}
ContradictionValues == {-5, 0, 5} \cup {10 * k : k \in 1..MaxContradictions}
SuppliedMaturity == {0, 500, 1100}

Kwargs ==
    [depth_score : DepthValues,
     edge_case_coverage : -1..MaxEdgeCoverage,
     technical_feasibility : FeasibilityValues,
     logic_consistency : ContradictionValues,
     ai_speak_instances : -1..MaxAiSpeak,
     maturity_score : SuppliedMaturity]

\* ---- the life of one report ----
Construct ==
    /\ construct = "pending"
    /\ report' = QualityGateReport(kwargs)
    /\ construct' = IF QualityGateReport(kwargs) = <<>> THEN "ValidationError" ELSE "ok"
    /\ UNCHANGED <<kwargs, seen_passed, seen_reasons, dumped, export_vars, validator_vars, orchestrator_vars, workflow_vars>>

ReadPassedQualityGate ==
    /\ construct = "ok"
    /\ seen_passed' = <<passed_quality_gate(report[1])>>
    /\ UNCHANGED <<kwargs, report, construct, seen_reasons, dumped, export_vars, validator_vars, orchestrator_vars, workflow_vars>>

ReadFailureReasons ==
    /\ construct = "ok"
    /\ seen_reasons' = <<failure_reasons(report[1])>>
    /\ UNCHANGED <<kwargs, report, construct, seen_passed, dumped, export_vars, validator_vars, orchestrator_vars, workflow_vars>>

ModelDump ==
    /\ construct = "ok"
    /\ dumped' = <<model_dump(report[1])>>
    /\ UNCHANGED <<kwargs, report, construct, seen_passed, seen_reasons, export_vars, validator_vars, orchestrator_vars, workflow_vars>>

ValidatorIdle ==
    /\ triple = <<>>
    /\ validator_result = <<>>

OrchestratorIdle ==
    /\ crew = <<>>
    /\ kickoffs = 0
    /\ last_call = [method |-> "none", workers_given |-> FALSE, outcome |-> "none"]

WorkflowIdle ==
    /\ config = [enable_phase4_export |-> FALSE, phase4_enforce_quality_gate |-> FALSE]
    /\ sdd_template = <<>>
    /\ workflow_pc = "idle"
    /\ parsed_result = [validation |-> <<>>, phase4_export |-> <<>>]
    /\ workflow_error = "none"

ExportIdle ==
    /\ call = <<>>
    /\ pc = "idle"
    /\ retry = 0
    /\ mock_content = <<>>
    /\ quality_report = <<>>
    /\ final_content = <<>>
    /\ attempts = <<>>
    /\ files = [document |-> <<>>, quality_report |-> <<>>]
    /\ result = <<>>
    /\ error = "none"

ReportInit ==
    /\ kwargs \in Kwargs
    /\ report = <<>>
    /\ construct = "pending"
    /\ seen_passed = <<>>
    /\ seen_reasons = <<>>
    /\ dumped = <<>>
    /\ ExportIdle
    /\ ValidatorIdle
    /\ OrchestratorIdle
    /\ WorkflowIdle

ReportNext ==
    \/ Construct
    \/ ReadPassedQualityGate
    \/ ReadFailureReasons
    \/ ModelDump

ReportSpec == ReportInit /\ [][ReportNext]_vars

\* ------------------------------------------------------------------------
\* Score primitives (gate.py 109-247)
\*
\* Text is modelled by what the primitives read of it:
\*   a happy-path step   [description: number of words (single spaces),
\*                        mentions_validation: 'validation' in str(step).lower(),
\*                        action_has_success: 'success' in action.lower()]
\*   an edge case        [scenario: number of words,
\*                        scenario_has_fail: 'fail' in scenario.lower(),
\*                        mitigation: the mitigation is non-empty]
\*   a tech-stack value  [is_dict, rationale: details.get('rationale') is
\*                        non-empty, mentions_rationale: 'rationale' in str(v).lower()]
\* ------------------------------------------------------------------------
Step(words, validation, success) ==
    [description |-> words, mentions_validation |-> validation, action_has_success |-> success]

EdgeCase(words, fail, mitigation) ==
    [scenario |-> words, scenario_has_fail |-> fail, mitigation |-> mitigation]

TechChoice(isDict, rationale, mentions) ==
    [is_dict |-> isDict, rationale |-> rationale, mentions_rationale |-> mentions]

\* str.count(' ') of a text of `words` words separated by single spaces
SpaceCount(words) == IF words = 0 THEN 0 ELSE words - 1

\* the positions of a list
Indices(seq) == 1..Len(seq)

B(cond) == IF cond THEN 1 ELSE 0

calculate_depth_score(data) ==
    LET hp == data.happy_path
        ec == data.edge_cases
        ts == data.tech_stack
        score == B(Len(hp) >= 5)
                 + B(\E i \in Indices(hp) : SpaceCount(hp[i].description) > 10)
                 + B(\E i \in Indices(hp) : hp[i].mentions_validation)
                 + B(Len(ec) >= 5)
                 + B(\E i \in Indices(ec) : ec[i].mitigation)
                 + B(\E i \in Indices(ec) : SpaceCount(ec[i].scenario) > 5)
                 + B(Len(ts) >= 3)
                 + B(\E i \in Indices(ts) : ts[i].mentions_rationale)
                 + B(data.data_models)
                 + B(data.api_spec)
    IN  Min(10 * score, 100)

\* round(feasible / total * 100, 2), in hundredths of a percent
check_technical_feasibility_CountsAnyDict(data) ==
    LET ec == data.edge_cases
        ts == data.tech_stack
        total == Len(ts) + Len(ec)
        feasible == Cardinality({i \in Indices(ts) : ts[i].is_dict})
                    + Cardinality({i \in Indices(ec) : ec[i].mitigation})
    IN  IF total > 0 THEN (2 * feasible * 10000 + total) \div (2 * total) ELSE 0

check_technical_feasibility(data) ==
    LET ec == data.edge_cases
        ts == data.tech_stack
        total == Len(ts) + Len(ec)
        feasible == Cardinality({i \in Indices(ts) : ts[i].is_dict /\ ts[i].rationale})
                    + Cardinality({i \in Indices(ec) : ec[i].mitigation})
    IN  IF total > 0 THEN (2 * feasible * 10000 + total) \div (2 * total) ELSE 0

find_logic_contradictions_IgnoresHappyPath(content, data) ==
    Cardinality({i \in Indices(data.edge_cases) : data.edge_cases[i].scenario_has_fail})

find_logic_contradictions(content, data) ==
    LET hp == data.happy_path
        ec == data.edge_cases
    IN  IF \E i \in Indices(hp) : hp[i].action_has_success
        THEN Cardinality({i \in Indices(ec) : ec[i].scenario_has_fail})
        ELSE 0

\* A line of a document: its text, and the badge when it is the injected one.
Line(text) == [text |-> text, badge |-> <<>>]

\* occurrences of the AI-speak patterns in one line
PhraseCount(text) == IF text = "Toi se ..." THEN 1 ELSE 0

RECURSIVE SumPhrases(_)
SumPhrases(lines) ==
    IF lines = <<>> THEN 0
    ELSE PhraseCount(Head(lines).text) + SumPhrases(Tail(lines))

detect_ai_speak(content) == SumPhrases(content)

validate_quality_gate(content, extracted_data) ==
    QualityGateReport(
        [depth_score |-> calculate_depth_score(extracted_data),
         edge_case_coverage |-> Len(extracted_data.edge_cases),
         technical_feasibility |-> check_technical_feasibility(extracted_data),
         logic_consistency |-> 10 * find_logic_contradictions(content, extracted_data),
         ai_speak_instances |-> detect_ai_speak(content),
         maturity_score |-> 0])

\* ------------------------------------------------------------------------
\* export_sdd (export.py 20-136)
\* ------------------------------------------------------------------------

\* The placeholders a template line names.
Placeholders(text) ==
    IF text = "# {feature_name}" THEN {"feature_name"}
    ELSE IF text = "Happy Path: {happy_path}" THEN {"happy_path"}
    ELSE IF text = "Owner: {owner}" THEN {"owner"}
    ELSE {}

DataKeys == {"feature_name", "happy_path", "edge_cases", "tech_stack"}

\* str.format on one line: the placeholders are replaced by the values
\* (the values' text holds no AI-speak phrase and starts no heading).
FormatText(text) ==
    IF text = "# {feature_name}" THEN "# F"
    ELSE IF text = "Happy Path: {happy_path}" THEN "Happy Path: [...]"
    ELSE text

\* template.format(**aggregated_data): <<content>>, or <<>> for KeyError
Format_OmitsMissing(template) ==
    <<[i \in 1..Len(template) |-> Line(FormatText(template[i]))]>>

Format(template) ==
    IF \E i \in 1..Len(template) : ~(Placeholders(template[i]) \subseteq DataKeys)
    THEN <<>>
    ELSE <<[i \in 1..Len(template) |-> Line(FormatText(template[i]))]>>

\* line.startswith('# ')
IsHeading(line) == line.badge = <<>> /\ line.text = "# F"

Badge(q) ==
    [text |-> "Quality Gate Report",
     badge |-> <<[maturity_score |-> q.maturity_score,
                  depth_score |-> q.depth_score,
                  edge_case_coverage |-> q.edge_case_coverage,
                  technical_feasibility |-> q.technical_feasibility,
                  status |-> IF passed_quality_gate(q) THEN "PASSED" ELSE "FAILED"]>>]

inject_quality_gate_badge_BeforeHeading(content, q) ==
    LET headings == {i \in 1..Len(content) : IsHeading(content[i])}
        first == CHOOSE i \in headings : \A j \in headings : i <= j
        at == IF headings = {} THEN Min(1, Len(content)) ELSE first - 1
    IN  SubSeq(content, 1, at) \o <<Badge(q)>> \o SubSeq(content, at + 1, Len(content))

inject_quality_gate_badge(content, q) ==
    LET headings == {i \in 1..Len(content) : IsHeading(content[i])}
        first == CHOOSE i \in headings : \A j \in headings : i <= j
        insert_idx == IF headings = {} THEN 1 ELSE first
        at == Min(insert_idx, Len(content))
    IN  SubSeq(content, 1, at) \o <<Badge(q)>> \o SubSeq(content, at + 1, Len(content))

\* The branch taken after one gate evaluation (export.py 65-83).
GateDecision_NeverRaises(q, enforce, attempt, max_retries) ==
    IF passed_quality_gate(q) THEN "break"
    ELSE IF ~enforce THEN "break"
    ELSE IF attempt < max_retries - 1 THEN "retry"
    ELSE "break"

GateDecision_IgnoresEnforceFlag(q, enforce, attempt, max_retries) ==
    IF passed_quality_gate(q) THEN "break"
    ELSE IF attempt < max_retries - 1 THEN "retry"
    ELSE "raise"

GateDecision(q, enforce, attempt, max_retries) ==
    IF passed_quality_gate(q) THEN "break"
    ELSE IF ~enforce THEN "break"
    ELSE IF attempt < max_retries - 1 THEN "retry"
    ELSE "raise"

Extracted_CarriesDataModels(aggregated_data) ==
    [happy_path |-> aggregated_data.happy_path,
     edge_cases |-> aggregated_data.edge_cases,
     tech_stack |-> aggregated_data.tech_stack,
     data_models |-> TRUE,
     api_spec |-> FALSE]

Extracted(aggregated_data) ==
    [happy_path |-> aggregated_data.happy_path,
     edge_cases |-> aggregated_data.edge_cases,
     tech_stack |-> aggregated_data.tech_stack,
     data_models |-> FALSE,
     api_spec |-> FALSE]

FileName_AlwaysPassed(aggregated_data, q, format) ==
    [feature |-> aggregated_data.feature_name,
     status |-> "PASSED",
     format |-> format]

FileName(aggregated_data, q, format) ==
    [feature |-> aggregated_data.feature_name,
     status |-> IF passed_quality_gate(q) THEN "PASSED" ELSE "FAILED",
     format |-> format]

\* ---- the steps of one call ----

\* if not aggregated_data.get("feature_name"): raise ValueError
RejectMissingFeatureName ==
    /\ pc = "entry"
    /\ call[1].aggregated_data.feature_name = ""
    /\ error' = "ValueError"
    /\ pc' = "raised"
    /\ UNCHANGED <<call, retry, mock_content, quality_report, final_content,
                   attempts, files, result, report_vars, validator_vars, orchestrator_vars, workflow_vars>>

\* mock_content = template.format(**aggregated_data)
RenderTemplate ==
    /\ pc = "entry"
    /\ call[1].aggregated_data.feature_name # ""
    /\ LET rendered == Format(call[1].template)
       IN  IF rendered = <<>>
           THEN /\ error' = "KeyError"
                /\ pc' = "raised"
                /\ UNCHANGED mock_content
           ELSE /\ mock_content' = rendered
                /\ pc' = "loop"
                /\ UNCHANGED error
    /\ UNCHANGED <<call, retry, quality_report, final_content,
                   attempts, files, result, report_vars, validator_vars, orchestrator_vars, workflow_vars>>

\* one iteration of `for retry in range(max_retries)`
GateAttempt ==
    /\ pc = "loop"
    /\ retry < call[1].max_retries
    /\ LET q == validate_quality_gate(mock_content[1], Extracted(call[1].aggregated_data))
       IN  IF q = <<>>
           THEN /\ error' = "ValidationError"
                /\ pc' = "raised"
                /\ UNCHANGED <<quality_report, attempts, retry>>
           ELSE /\ quality_report' = q
                /\ attempts' = Append(attempts, q[1])
                /\ LET d == GateDecision(q[1], call[1].enforce_quality_gate,
                                         retry, call[1].max_retries)
                   IN  /\ pc' = CASE d = "break" -> "publish"
                                  [] d = "retry" -> "loop"
                                  [] d = "raise" -> "raised"
                       /\ retry' = IF d = "retry" THEN retry + 1 ELSE retry
                       /\ error' = IF d = "raise" THEN "QualityGateError" ELSE error
    /\ UNCHANGED <<call, mock_content, final_content, files, result, report_vars, validator_vars, orchestrator_vars, workflow_vars>>

LoopExhausted_RaisesQualityGateError ==
    /\ pc = "loop"
    /\ retry >= call[1].max_retries
    /\ pc' = "raised"
    /\ error' = "QualityGateError"
    /\ UNCHANGED <<call, retry, mock_content, quality_report, final_content,
                   attempts, files, result, report_vars, validator_vars, orchestrator_vars, workflow_vars>>

\* range(max_retries) is exhausted without break or raise
LoopExhausted ==
    /\ pc = "loop"
    /\ retry >= call[1].max_retries
    /\ pc' = "publish"
    /\ UNCHANGED <<call, retry, mock_content, quality_report, final_content,
                   attempts, files, result, error, report_vars, validator_vars, orchestrator_vars, workflow_vars>>

\* final_content = inject_quality_gate_badge(mock_content, quality_report);
\* quality_report is an unbound local when the loop body never ran.
InjectBadge ==
    /\ pc = "publish"
    /\ IF quality_report = <<>>
       THEN /\ error' = "UnboundLocalError"
            /\ pc' = "raised"
            /\ UNCHANGED final_content
       ELSE /\ final_content' = <<inject_quality_gate_badge(mock_content[1], quality_report[1])>>
            /\ pc' = "write_document"
            /\ UNCHANGED error
    /\ UNCHANGED <<call, retry, mock_content, quality_report,
                   attempts, files, result, report_vars, validator_vars, orchestrator_vars, workflow_vars>>

WriteDocument ==
    /\ pc = "write_document"
    /\ files' = [files EXCEPT !.document =
                    <<[name |-> FileName(call[1].aggregated_data, quality_report[1],
                                         call[1].format),
                       content |-> final_content[1]]>>]
    /\ pc' = "write_report"
    /\ UNCHANGED <<call, retry, mock_content, quality_report, final_content,
                   attempts, result, error, report_vars, validator_vars, orchestrator_vars, workflow_vars>>

WriteQualityReport ==
    /\ pc = "write_report"
    /\ files' = [files EXCEPT !.quality_report =
                    <<[name |-> FileName(call[1].aggregated_data, quality_report[1],
                                         call[1].format),
                       content |-> model_dump(quality_report[1])]>>]
    /\ pc' = "return"
    /\ UNCHANGED <<call, retry, mock_content, quality_report, final_content,
                   attempts, result, error, report_vars, validator_vars, orchestrator_vars, workflow_vars>>

Return ==
    /\ pc = "return"
    /\ result' = <<[file_path |-> files.document[1].name,
                    quality_report |-> quality_report[1],
                    passed |-> passed_quality_gate(quality_report[1])]>>
    /\ pc' = "returned"
    /\ UNCHANGED <<call, retry, mock_content, quality_report, final_content,
                   attempts, files, error, report_vars, validator_vars, orchestrator_vars, workflow_vars>>

\* ---- the calls explored ----
Repeat(x, n) == [i \in 1..n |-> x]

HappyPaths ==
    {Repeat(s, n) : s \in {Step(12, TRUE, FALSE), Step(3, FALSE, TRUE)},
                    n \in {0, ListLen - 1, ListLen}}
    \cup {<<Step(11, FALSE, FALSE)>>, <<Step(10, FALSE, TRUE), Step(12, FALSE, FALSE)>>}

EdgeCaseLists ==
    {Repeat(c, n) : c \in {EdgeCase(7, FALSE, TRUE), EdgeCase(2, TRUE, FALSE)},
                    n \in {0, ListLen - 1, ListLen}}
    \cup {Repeat(EdgeCase(7, FALSE, TRUE), ListLen - 1) \o <<EdgeCase(2, TRUE, FALSE)>>}

TechStacks ==
    {Repeat(v, n) : v \in {TechChoice(TRUE, TRUE, TRUE), TechChoice(FALSE, FALSE, FALSE)},
                    n \in {0, 2, 3}}
    \cup {<<TechChoice(TRUE, TRUE, TRUE), TechChoice(TRUE, FALSE, TRUE),
            TechChoice(FALSE, FALSE, FALSE)>>}

Templates ==
    {<<"# {feature_name}">>,
     <<"# {feature_name}", "", "Happy Path: {happy_path}">>,
     <<"Toi se ...", "# {feature_name}">>,
     <<"Happy Path: {happy_path}">>,
     <<"# {feature_name}", "", "# {feature_name}">>,
     <<"# {feature_name}", "Owner: {owner}">>}

AggregatedData ==
    [feature_name : {"", "F"},
     happy_path : HappyPaths,
     edge_cases : EdgeCaseLists,
     tech_stack : TechStacks]

Calls ==
    [aggregated_data : AggregatedData,
     template : Templates,
     format : {"md"},
     enforce_quality_gate : BOOLEAN,
     max_retries : -1..MaxRetries]

ReportIdle ==
    /\ kwargs = <<>>
    /\ report = <<>>
    /\ construct = "idle"
    /\ seen_passed = <<>>
    /\ seen_reasons = <<>>
    /\ dumped = <<>>

Init ==
    /\ call \in {<<c>> : c \in Calls}
    /\ pc = "entry"
    /\ retry = 0
    /\ mock_content = <<>>
    /\ quality_report = <<>>
    /\ final_content = <<>>
    /\ attempts = <<>>
    /\ files = [document |-> <<>>, quality_report |-> <<>>]
    /\ result = <<>>
    /\ error = "none"
    /\ ReportIdle
    /\ ValidatorIdle
    /\ OrchestratorIdle
    /\ WorkflowIdle

Next ==
    \/ RejectMissingFeatureName
    \/ RenderTemplate
    \/ GateAttempt
    \/ LoopExhausted
    \/ InjectBadge
    \/ WriteDocument
    \/ WriteQualityReport
    \/ Return

Spec == Init /\ [][Next]_vars

\* ------------------------------------------------------------------------
\* HierarchicalValidator (src/src/validation/hierarchical_validator.py)
\*
\* A str is the sequence of its characters, so that lower(), split() and the
\* substring test 'keyword in text' are computed and not assumed.
\* ------------------------------------------------------------------------
MIN_HAPPY_PATH_STEPS == 3
MIN_EDGE_CASES_PER_REPORT == 5
MIN_QUALITY_SCORE == 70

TECHNICAL_KEYWORDS ==
    <<<<"d", "a", "t", "a", "b", "a", "s", "e">>,
      <<"n", "e", "t", "w", "o", "r", "k">>,
      <<"c", "o", "n", "c", "u", "r", "r", "e", "n", "c", "y">>,
      <<"t", "i", "m", "e", "o", "u", "t">>,
      <<"c", "o", "n", "n", "e", "c", "t", "i", "o", "n">>,
      <<"a", "p", "i">>,
      <<"r", "a", "c", "e", " ", "c", "o", "n", "d", "i", "t", "i", "o", "n">>,
      <<"t", "r", "a", "n", "s", "a", "c", "t", "i", "o", "n">>,
      <<"c", "i", "r", "c", "u", "i", "t", " ", "b", "r", "e", "a", "k", "e", "r">>,
      <<"p", "o", "o", "l">>,
      <<"l", "a", "t", "e", "n", "c", "y">>,
      <<"t", "h", "r", "o", "u", "g", "h", "p", "u", "t">>,
      <<"s", "c", "a", "l", "a", "b", "i", "l", "i", "t", "y">>,
      <<"a", "v", "a", "i", "l", "a", "b", "i", "l", "i", "t", "y">>,
      <<"c", "o", "n", "s", "i", "s", "t", "e", "n", "c", "y">>,
      <<"r", "e", "p", "l", "i", "c", "a", "t", "i", "o", "n">>,
      <<"s", "h", "a", "r", "d", "i", "n", "g">>,
      <<"c", "a", "c", "h", "i", "n", "g">>,
      <<"l", "o", "a", "d", " ", "b", "a", "l", "a", "n", "c", "e", "r">>,
      <<"m", "i", "c", "r", "o", "s", "e", "r", "v", "i", "c", "e">>,
      <<"c", "o", "n", "t", "a", "i", "n", "e", "r">>,
      <<"d", "e", "p", "l", "o", "y", "m", "e", "n", "t">>,
      <<"m", "o", "n", "i", "t", "o", "r", "i", "n", "g">>,
      <<"l", "o", "g", "g", "i", "n", "g">>,
      <<"a", "u", "t", "h", "e", "n", "t", "i", "c", "a", "t", "i", "o", "n">>,
      <<"a", "u", "t", "h", "o", "r", "i", "z", "a", "t", "i", "o", "n">>,
      <<"e", "n", "c", "r", "y", "p", "t", "i", "o", "n">>,
      <<"s", "s", "l">>,
      <<"t", "l", "s">>,
      <<"h", "t", "t", "p">>,
      <<"h", "t", "t", "p", "s">>,
      <<"g", "r", "p", "c">>,
      <<"w", "e", "b", "s", "o", "c", "k", "e", "t">>,
      <<"q", "u", "e", "u", "e">>,
      <<"m", "e", "s", "s", "a", "g", "e">>,
      <<"e", "v", "e", "n", "t">>,
      <<"a", "s", "y", "n", "c">>,
      <<"s", "y", "n", "c", "h", "r", "o", "n", "o", "u", "s">>,
      <<"b", "l", "o", "c", "k", "i", "n", "g">>,
      <<"n", "o", "n", "-", "b", "l", "o", "c", "k", "i", "n", "g">>>>

UpperCase ==
    <<"A", "B", "C", "D", "E", "F", "G", "H", "I", "J", "K", "L", "M", "N", "O", "P", "Q", "R", "S", "T", "U", "V", "W", "X", "Y", "Z">>

LowerCase ==
    <<"a", "b", "c", "d", "e", "f", "g", "h", "i", "j", "k", "l", "m", "n", "o", "p", "q", "r", "s", "t", "u", "v", "w", "x", "y", "z">>

\* str.lower(), character by character
UpperToLower ==
    [c \in {UpperCase[i] : i \in 1..Len(UpperCase)} |->
        LowerCase[CHOOSE i \in 1..Len(UpperCase) : UpperCase[i] = c]]

LowerChar(c) == IF c \in DOMAIN UpperToLower THEN UpperToLower[c] ELSE c

LowerText(s) == [i \in 1..Len(s) |-> LowerChar(s[i])]

\* needle in text
Contains(text, needle) ==
    \/ Len(needle) = 0
    \/ \E i \in 1..(Len(text) - Len(needle) + 1) :
          /\ text[i] = needle[1]
          /\ SubSeq(text, i, i + Len(needle) - 1) = needle

\* set(text.split()): the maximal runs of characters other than ' '
WordSet(text) ==
    LET starts == {i \in 1..Len(text) :
                      text[i] # " " /\ (i = 1 \/ text[i - 1] = " ")}
        EndOf(i) == CHOOSE j \in i..Len(text) :
                        /\ \A k \in i..j : text[k] # " "
                        /\ (j = Len(text) \/ text[j + 1] = " ")
    IN  {SubSeq(text, i, EndOf(i)) : i \in starts}

InList(x, list) == \E i \in 1..Len(list) : list[i] = x

\* one entry of the issue list; every entry has the same fields
Issue(kind, report_type, got, keywords, tech, biz) ==
    [kind |-> kind, report |-> report_type, got |-> got,
     keywords |-> keywords, tech |-> tech, biz |-> biz]

validate_happy_path(happy_path) ==
    LET errors ==
            IF Len(happy_path.steps) < MIN_HAPPY_PATH_STEPS
            THEN <<Issue("steps", "", Len(happy_path.steps), <<>>, <<>>, <<>>)>>
            ELSE <<>>
    IN  [valid |-> Len(errors) = 0, errors |-> errors]

ScanKeywords_NoDedup(text_to_check, keywords_found) ==
    keywords_found \o
        SelectSeq(TECHNICAL_KEYWORDS,
                  LAMBDA keyword : Contains(text_to_check, LowerText(keyword)))

\* the inner loop over TECHNICAL_KEYWORDS: the keywords it appends, in list
\* order. No keyword stands twice in the list, so 'not in keywords_found'
\* only ever rejects a keyword found in an earlier edge case.
ScanKeywords(text_to_check, keywords_found) ==
    keywords_found \o
        SelectSeq(TECHNICAL_KEYWORDS,
                  LAMBDA keyword : /\ Contains(text_to_check, LowerText(keyword))
                                   /\ ~InList(keyword, keywords_found))

\* the outer loop over edge_cases, from edge case n on
RECURSIVE ScanEdgeCases(_, _, _)
ScanEdgeCases(edge_cases, n, keywords_found) ==
    IF n > Len(edge_cases) THEN keywords_found
    ELSE LET text_to_check == LowerText(edge_cases[n].description) \o <<" ">>
                              \o LowerText(edge_cases[n].trigger_condition)
         IN  ScanEdgeCases(edge_cases, n + 1,
                           ScanKeywords(text_to_check, keywords_found))

check_technical_keywords(edge_cases) == ScanEdgeCases(edge_cases, 1, <<>>)

validate_stress_report_NoCoverage(stress_report, report_type) ==
    LET errors ==
            (IF Len(stress_report.edge_cases) < MIN_EDGE_CASES_PER_REPORT
             THEN <<Issue("edge_cases", report_type, Len(stress_report.edge_cases), <<>>, <<>>, <<>>)>>
             ELSE <<>>)
            \o (IF stress_report.resilience_score < MIN_QUALITY_SCORE
                THEN <<Issue("resilience", report_type, stress_report.resilience_score, <<>>, <<>>, <<>>)>>
                ELSE <<>>)
        technical_keywords_found == check_technical_keywords(stress_report.edge_cases)
        warnings ==
            IF report_type = "business" /\ technical_keywords_found # <<>>
            THEN <<Issue("keywords", report_type, 0, technical_keywords_found, <<>>, <<>>)>>
            ELSE <<>>
    IN  [valid |-> Len(errors) = 0, errors |-> errors, warnings |-> warnings]

validate_stress_report_FirstErrorOnly(stress_report, report_type) ==
    LET errors ==
            IF Len(stress_report.edge_cases) < MIN_EDGE_CASES_PER_REPORT
            THEN <<Issue("edge_cases", report_type, Len(stress_report.edge_cases), <<>>, <<>>, <<>>)>>
            ELSE IF stress_report.resilience_score < MIN_QUALITY_SCORE
            THEN <<Issue("resilience", report_type, stress_report.resilience_score, <<>>, <<>>, <<>>)>>
            ELSE IF stress_report.coverage_score < MIN_QUALITY_SCORE
            THEN <<Issue("coverage", report_type, stress_report.coverage_score, <<>>, <<>>, <<>>)>>
            ELSE <<>>
        technical_keywords_found == check_technical_keywords(stress_report.edge_cases)
        warnings ==
            IF report_type = "business" /\ technical_keywords_found # <<>>
            THEN <<Issue("keywords", report_type, 0, technical_keywords_found, <<>>, <<>>)>>
            ELSE <<>>
    IN  [valid |-> Len(errors) = 0, errors |-> errors, warnings |-> warnings]

validate_stress_report(stress_report, report_type) ==
    LET errors ==
            (IF Len(stress_report.edge_cases) < MIN_EDGE_CASES_PER_REPORT
             THEN <<Issue("edge_cases", report_type, Len(stress_report.edge_cases), <<>>, <<>>, <<>>)>>
             ELSE <<>>)
            \o (IF stress_report.resilience_score < MIN_QUALITY_SCORE
                THEN <<Issue("resilience", report_type, stress_report.resilience_score, <<>>, <<>>, <<>>)>>
                ELSE <<>>)
            \o (IF stress_report.coverage_score < MIN_QUALITY_SCORE
                THEN <<Issue("coverage", report_type, stress_report.coverage_score, <<>>, <<>>, <<>>)>>
                ELSE <<>>)
        technical_keywords_found ==
            IF report_type = "business"
            THEN check_technical_keywords(stress_report.edge_cases)
            ELSE <<>>
        warnings ==
            IF technical_keywords_found # <<>>
            THEN <<Issue("keywords", report_type, 0, technical_keywords_found, <<>>, <<>>)>>
            ELSE <<>>
    IN  [valid |-> Len(errors) = 0, errors |-> errors, warnings |-> warnings]

\* the business descriptions sharing more than 3 words with one technical case
OverlapHits(business_descriptions, tech_case) ==
    LET tech_words == WordSet(LowerText(tech_case.description))
    IN  {i \in 1..Len(business_descriptions) :
            Cardinality(tech_words \cap WordSet(business_descriptions[i])) > 3}

RECURSIVE ScanTechnicalCases_NoBreak(_, _, _, _)
ScanTechnicalCases_NoBreak(business_descriptions, technical_cases, n, warnings) ==
    IF n > Len(technical_cases) THEN warnings
    ELSE LET tech_case == technical_cases[n]
             hits == OverlapHits(business_descriptions, tech_case)
             nth(k) == CHOOSE i \in hits : Cardinality({j \in hits : j <= i}) = k
         IN  ScanTechnicalCases_NoBreak(business_descriptions, technical_cases, n + 1,
                warnings \o [k \in 1..Cardinality(hits) |->
                    Issue("overlap", "", 0, <<>>, tech_case.description,
                          business_descriptions[nth(k)])])

\* the loop over technical_cases, from case n on; the inner loop stops at the
\* first business description that overlaps
RECURSIVE ScanTechnicalCases(_, _, _, _)
ScanTechnicalCases(business_descriptions, technical_cases, n, warnings) ==
    IF n > Len(technical_cases) THEN warnings
    ELSE LET tech_case == technical_cases[n]
             hits == OverlapHits(business_descriptions, tech_case)
             first == CHOOSE i \in hits : \A j \in hits : i <= j
         IN  ScanTechnicalCases(business_descriptions, technical_cases, n + 1,
                IF hits # {}
                THEN Append(warnings,
                        Issue("overlap", "", 0, <<>>, tech_case.description,
                              business_descriptions[first]))
                ELSE warnings)

validate_no_overlap(business_cases, technical_cases) ==
    LET business_descriptions ==
            [i \in 1..Len(business_cases) |-> LowerText(business_cases[i].description)]
    IN  ScanTechnicalCases(business_descriptions, technical_cases, 1, <<>>)

validate_hierarchical_result_WarningsFail(workflow_result) ==
    LET hp == validate_happy_path(workflow_result.happy_path)
        business == validate_stress_report(workflow_result.business_exceptions, "business")
        technical == validate_stress_report(workflow_result.technical_edge_cases, "technical")
        overlap_warnings == validate_no_overlap(workflow_result.business_exceptions.edge_cases,
                                                workflow_result.technical_edge_cases.edge_cases)
        errors == hp.errors \o business.errors \o technical.errors
        warnings == business.warnings \o technical.warnings \o overlap_warnings
    IN  [is_valid |-> hp.valid /\ business.valid /\ technical.valid /\ warnings = <<>>,
         issues |-> errors \o warnings]

validate_hierarchical_result_WarningsFirst(workflow_result) ==
    LET hp == validate_happy_path(workflow_result.happy_path)
        business == validate_stress_report(workflow_result.business_exceptions, "business")
        technical == validate_stress_report(workflow_result.technical_edge_cases, "technical")
        overlap_warnings == validate_no_overlap(workflow_result.business_exceptions.edge_cases,
                                                workflow_result.technical_edge_cases.edge_cases)
        errors == hp.errors \o business.errors \o technical.errors
        warnings == business.warnings \o technical.warnings \o overlap_warnings
    IN  [is_valid |-> hp.valid /\ business.valid /\ technical.valid,
         issues |-> warnings \o errors]

validate_hierarchical_result(workflow_result) ==
    LET hp == validate_happy_path(workflow_result.happy_path)
        business == validate_stress_report(workflow_result.business_exceptions, "business")
        technical == validate_stress_report(workflow_result.technical_edge_cases, "technical")
        overlap_warnings == validate_no_overlap(workflow_result.business_exceptions.edge_cases,
                                                workflow_result.technical_edge_cases.edge_cases)
        errors == hp.errors \o business.errors \o technical.errors
        warnings == business.warnings \o technical.warnings \o overlap_warnings
        all_issues == errors \o warnings
    IN  [is_valid |-> hp.valid /\ business.valid /\ technical.valid,
         issues |-> all_issues]

\* ---- the validation of one result ----
Validate ==
    /\ triple # <<>>
    /\ validator_result = <<>>
    /\ validator_result' = <<validate_hierarchical_result(triple[1])>>
    /\ UNCHANGED <<triple, report_vars, export_vars, orchestrator_vars, workflow_vars>>

\* ---- the results explored ----
BizDeclined ==
    [description |-> <<"P", "a", "y", "m", "e", "n", "t", " ", "c", "a", "r", "d", " ", "d", "e", "c", "l", "i", "n", "e", "d", " ", "t", "w", "i", "c", "e">>,
     trigger_condition |-> <<"C", "u", "s", "t", "o", "m", "e", "r", " ", "p", "a", "y", "s", " ", "a", "g", "a", "i", "n">>]

BizRefund ==
    [description |-> <<"t", "w", "i", "c", "e", " ", "d", "e", "c", "l", "i", "n", "e", "d", " ", "c", "a", "r", "d", " ", "p", "a", "y", "m", "e", "n", "t", " ", "r", "e", "f", "u", "n", "d">>,
     trigger_condition |-> <<"C", "u", "s", "t", "o", "m", "e", "r", " ", "a", "s", "k", "s", " ", "r", "e", "f", "u", "n", "d">>]

BizLeak ==
    [description |-> <<"D", "a", "t", "a", "b", "a", "s", "e", " ", "c", "o", "n", "n", "e", "c", "t", "i", "o", "n", " ", "f", "a", "i", "l", "s">>,
     trigger_condition |-> <<"r", "a", "p", "i", "d", " ", "r", "e", "t", "r", "i", "e", "s">>]

BizRace ==
    [description |-> <<"C", "h", "e", "c", "k", "o", "u", "t", " ", "r", "a", "c", "e">>,
     trigger_condition |-> <<"c", "o", "n", "d", "i", "t", "i", "o", "n", " ", "u", "n", "c", "l", "e", "a", "r">>]

BizFiller ==
    [description |-> <<"U", "s", "e", "r", " ", "c", "a", "n", "c", "e", "l", "s", " ", "o", "r", "d", "e", "r">>,
     trigger_condition |-> <<"C", "u", "s", "t", "o", "m", "e", "r", " ", "c", "h", "a", "n", "g", "e", "s", " ", "m", "i", "n", "d">>]

TechFour ==
    [description |-> <<"P", "a", "y", "m", "e", "n", "t", " ", "c", "a", "r", "d", " ", "d", "e", "c", "l", "i", "n", "e", "d", " ", "t", "w", "i", "c", "e", " ", "t", "o", "d", "a", "y">>,
     trigger_condition |-> <<"N", "e", "t", "w", "o", "r", "k", " ", "t", "i", "m", "e", "o", "u", "t">>]

TechThree ==
    [description |-> <<"p", "a", "y", "m", "e", "n", "t", " ", "c", "a", "r", "d", " ", "d", "e", "c", "l", "i", "n", "e", "d", " ", "l", "a", "t", "e">>,
     trigger_condition |-> <<"Q", "u", "e", "u", "e", " ", "i", "s", " ", "f", "u", "l", "l">>]

TechRepeat ==
    [description |-> <<"c", "a", "r", "d", " ", "c", "a", "r", "d", " ", "p", "a", "y", "m", "e", "n", "t", " ", "d", "e", "c", "l", "i", "n", "e", "d">>,
     trigger_condition |-> <<"P", "o", "o", "l", " ", "e", "x", "h", "a", "u", "s", "t", "e", "d">>]

TechFiller ==
    [description |-> <<"D", "i", "s", "k", " ", "f", "u", "l", "l">>,
     trigger_condition |-> <<"L", "o", "g", " ", "v", "o", "l", "u", "m", "e", " ", "g", "r", "o", "w", "s">>]

Pad(head, filler, n) == head \o Repeat(filler, n - Len(head))

EdgeCaseCounts == {MIN_EDGE_CASES_PER_REPORT - 1, MIN_EDGE_CASES_PER_REPORT}

BusinessCases ==
    {Pad(head, BizFiller, n) :
        head \in {<<>>, <<BizDeclined>>, <<BizDeclined, BizRefund>>,
                  <<BizRefund, BizDeclined>>, <<BizLeak>>, <<BizRace, BizLeak>>,
                  <<BizLeak, BizDeclined>>, <<BizRace, BizLeak, BizLeak>>},
        n \in EdgeCaseCounts}

TechnicalCases ==
    {Pad(head, TechFiller, n) :
        head \in {<<>>, <<TechFour>>, <<TechThree>>, <<TechRepeat>>,
                  <<TechFour, TechFour>>, <<TechThree, TechFour>>},
        n \in EdgeCaseCounts}

ScoreValues == {MIN_QUALITY_SCORE - 1, MIN_QUALITY_SCORE}

StepCounts == {0, MIN_HAPPY_PATH_STEPS - 1, MIN_HAPPY_PATH_STEPS}

Reports(cases) ==
    [edge_cases : cases, resilience_score : ScoreValues, coverage_score : ScoreValues]

Triples ==
    [happy_path : {[steps |-> [i \in 1..n |-> i]] : n \in StepCounts},
     business_exceptions : Reports(BusinessCases),
     technical_edge_cases : Reports(TechnicalCases)]

ValidatorInit ==
    /\ triple \in {<<t>> : t \in Triples}
    /\ validator_result = <<>>
    /\ ReportIdle
    /\ ExportIdle
    /\ OrchestratorIdle
    /\ WorkflowIdle

ValidatorNext == Validate

ValidatorSpec == ValidatorInit /\ [][ValidatorNext]_vars

\* ------------------------------------------------------------------------
\* HierarchicalOrchestrator (src/src/workflows/hierarchical_orchestrator.py)
\*
\* crew is <<>> for None, else <<[agents, tasks]>>. An optional argument is
\* <<>> for None, else <<list>>. kickoffs counts the calls of crew.kickoff().
\* ------------------------------------------------------------------------
create_hierarchical_crew(workers, tasks) ==
    [agents |-> <<"manager">> \o workers,
     tasks |-> IF tasks = <<>> THEN <<>> ELSE tasks[1]]

\* the if / elif / else at the head of execute_workflow
ExecuteBranch_NeverRaises(workers, c) ==
    IF c = <<>> THEN "create" ELSE "set_tasks"

ExecuteBranch(workers, c) ==
    IF workers # <<>> /\ c = <<>> THEN "create"
    ELSE IF c = <<>> THEN "raise"
    ELSE "set_tasks"

Called(method, workers_given, outcome) ==
    [method |-> method, workers_given |-> workers_given, outcome |-> outcome]

WorkerLists == {<<>>, <<"architect">>, <<"architect", "auditor">>}

TaskLists == {<<>>, <<"happy_path">>, <<"happy_path", "stress_test">>}

Optional(values) == {<<>>} \cup {<<v>> : v \in values}

CreateCrew ==
    \E workers \in WorkerLists, tasks \in Optional(TaskLists) :
        /\ crew' = <<create_hierarchical_crew(workers, tasks)>>
        /\ last_call' = Called("create_hierarchical_crew", TRUE, "returned")
        /\ UNCHANGED <<kickoffs, report_vars, export_vars, validator_vars, workflow_vars>>

\* crew.kickoff() is library code: it returns or it raises
ExecuteWorkflow ==
    \E tasks \in TaskLists, workers \in Optional(WorkerLists) :
        LET branch == ExecuteBranch(workers, crew)
            given == workers # <<>>
            ready == IF branch = "create"
                     THEN <<create_hierarchical_crew(
                                IF given THEN workers[1] ELSE <<>>, <<tasks>>)>>
                     ELSE <<[crew[1] EXCEPT !.tasks = tasks]>>
        IN  IF branch = "raise"
            THEN /\ last_call' = Called("execute_workflow", given, "ValueError")
                 /\ UNCHANGED <<crew, kickoffs>>
                 /\ UNCHANGED <<report_vars, export_vars, validator_vars, workflow_vars>>
            ELSE /\ kickoffs < MaxKickoffs
                 /\ crew' = ready
                 /\ kickoffs' = kickoffs + 1
                 /\ \E outcome \in {"returned", "KickoffError"} :
                        last_call' = Called("execute_workflow", given, outcome)
                 /\ UNCHANGED <<report_vars, export_vars, validator_vars, workflow_vars>>

Reset ==
    /\ crew' = <<>>
    /\ last_call' = Called("reset", FALSE, "returned")
    /\ UNCHANGED <<kickoffs, report_vars, export_vars, validator_vars, workflow_vars>>

OrchestratorInit ==
    /\ crew = <<>>
    /\ kickoffs = 0
    /\ last_call = Called("__init__", FALSE, "returned")
    /\ ReportIdle
    /\ ExportIdle
    /\ ValidatorIdle
    /\ WorkflowIdle

OrchestratorNext == CreateCrew \/ ExecuteWorkflow \/ Reset

OrchestratorSpec == OrchestratorInit /\ [][OrchestratorNext]_vars

\* ------------------------------------------------------------------------
\* HierarchicalWorkflow.execute (src/src/workflows/hierarchical_workflow.py)
\*
\* One call of execute on a fresh workflow: the crew runs, its result is
\* parsed and validated, and Phase 4 (debate, then export_sdd) follows when
\* the configuration enables it. The export inside Phase 4 is the export_sdd
\* state machine above, started with the arguments _run_phase4_export passes.
\* parsed_result holds the two keys execute adds to the parsed dict; the
\* three parsed objects themselves are in triple.

\* max_retries of export_sdd when the caller does not pass it
DEFAULT_MAX_RETRIES == 3

Digits == <<"1", "2", "3", "4", "5">>

PlaceholderBusinessCase(n) ==
    [description |-> <<"P", "l", "a", "c", "e", "h", "o", "l", "d", "e", "r", " ", "b", "u", "s", "i", "n", "e", "s", "s", " ", "e", "d", "g", "e", " ", "c", "a", "s", "e", " ">> \o <<Digits[n]>>,
     trigger_condition |-> <<"P", "l", "a", "c", "e", "h", "o", "l", "d", "e", "r", " ", "t", "r", "i", "g", "g", "e", "r">>]

PlaceholderTechnicalCase(n) ==
    [description |-> <<"P", "l", "a", "c", "e", "h", "o", "l", "d", "e", "r", " ", "t", "e", "c", "h", "n", "i", "c", "a", "l", " ", "e", "d", "g", "e", " ", "c", "a", "s", "e", " ">> \o <<Digits[n]>>,
     trigger_condition |-> <<"P", "l", "a", "c", "e", "h", "o", "l", "d", "e", "r", " ", "t", "r", "i", "g", "g", "e", "r">>]

\* _extract_happy_path: three placeholder steps
extract_happy_path == [steps |-> [i \in 1..3 |-> i]]

extract_business_exceptions ==
    [edge_cases |-> [n \in 1..5 |-> PlaceholderBusinessCase(n)],
     resilience_score |-> 70,
     coverage_score |-> 70]

extract_technical_edge_cases ==
    [edge_cases |-> [n \in 1..5 |-> PlaceholderTechnicalCase(n)],
     resilience_score |-> 70,
     coverage_score |-> 70]

parse_workflow_result ==
    [happy_path |-> extract_happy_path,
     business_exceptions |-> extract_business_exceptions,
     technical_edge_cases |-> extract_technical_edge_cases]

\* The parsed results explored. The three _extract_* functions return the
\* fixed objects above, which pass every error check; the set also holds
\* results the validator rejects or warns about (a step short, a score below
\* the threshold, a technical keyword in a business case), so that the
\* branch of execute on is_valid is exercised both ways.
ParsedResults ==
    {parse_workflow_result,
     [parse_workflow_result EXCEPT !.happy_path.steps = [i \in 1..2 |-> i]],
     [parse_workflow_result EXCEPT !.business_exceptions.resilience_score = 69],
     [parse_workflow_result EXCEPT
         !.business_exceptions.edge_cases = Pad(<<BizLeak>>, BizFiller, 5)]}

\* _prepare_export_data: the dumped steps carry no 'description' key and the
\* dumped edge cases no 'scenario' key; every edge case has a mitigation;
\* tech_stack stays the empty dict of the defaults.
prepare_export_data(parsed) ==
    [feature_name |-> "F",
     happy_path |-> [i \in 1..Len(parsed.happy_path.steps) |-> Step(0, FALSE, FALSE)],
     edge_cases |-> [i \in 1..Len(parsed.business_exceptions.edge_cases) |->
                        EdgeCase(0, FALSE, TRUE)],
     tech_stack |-> <<>>]

\* the branch after validation: only the configuration is consulted
AfterValidation_OnlyWhenValid(cfg, is_valid) ==
    IF cfg.enable_phase4_export /\ is_valid THEN "phase4" ELSE "return"

AfterValidation(cfg, is_valid) ==
    IF cfg.enable_phase4_export THEN "phase4" ELSE "return"

\* `except Exception` in _run_phase4_export: QualityGateError derives from
\* Exception, as do the built-in errors export_sdd and the debate can raise.
ExceptionSubclasses ==
    {"QualityGateError", "ValueError", "KeyError", "UnboundLocalError", "DebateError"}

CaughtByExceptException_NotQualityGateError(exc) ==
    exc \in ExceptionSubclasses \ {"QualityGateError"}

CaughtByExceptException(exc) == exc \in ExceptionSubclasses

Phase4Success == [success |-> TRUE, error |-> "none"]

Phase4Failure(exc) == [success |-> FALSE, error |-> exc]

\* lines 117-138: the agents and tasks are created and the orchestrator runs
\* the crew with the workers given. Agent creation and crew.kickoff() are
\* library code: each returns or raises, and what they raise leaves execute.
RunCrew ==
    /\ workflow_pc = "start"
    /\ \E outcome \in {"returned", "KickoffError", "AgentError"} :
        IF outcome = "AgentError"
        THEN /\ workflow_pc' = "raised"
             /\ workflow_error' = outcome
             /\ UNCHANGED <<crew, kickoffs, last_call>>
        ELSE LET workers == <<"architect", "auditor">>
                 tasks == <<"happy_path", "stress_test">>
                 branch == ExecuteBranch(<<workers>>, crew)
             IN  /\ crew' = IF branch = "create"
                            THEN <<create_hierarchical_crew(workers, <<tasks>>)>>
                            ELSE <<[crew[1] EXCEPT !.tasks = tasks]>>
                 /\ kickoffs' = kickoffs + 1
                 /\ last_call' = Called("execute_workflow", TRUE, outcome)
                 /\ workflow_pc' = IF outcome = "returned" THEN "parse" ELSE "raised"
                 /\ workflow_error' = IF outcome = "returned" THEN "none" ELSE outcome
    /\ UNCHANGED <<config, sdd_template, parsed_result,
                   report_vars, export_vars, validator_vars>>

\* line 141: parsed_result = self._parse_workflow_result(result)
ParseWorkflowResult ==
    /\ workflow_pc = "parse"
    /\ \E parsed \in ParsedResults : triple' = <<parsed>>
    /\ workflow_pc' = "validate"
    /\ UNCHANGED <<validator_result, config, sdd_template, parsed_result, workflow_error,
                   report_vars, export_vars, orchestrator_vars>>

\* lines 144-157: the validator runs, its verdict is stored under
\* 'validation', and the configuration decides whether Phase 4 follows
ValidateParsedResult ==
    /\ workflow_pc = "validate"
    /\ LET validation == validate_hierarchical_result(triple[1])
       IN  /\ validator_result' = <<validation>>
           /\ parsed_result' = [parsed_result EXCEPT !.validation = <<validation>>]
           /\ workflow_pc' = AfterValidation(config, validation.is_valid)
    /\ UNCHANGED <<triple, config, sdd_template, workflow_error,
                   report_vars, export_vars, orchestrator_vars>>

\* lines 188-239 up to the call of export_sdd: the debate agents are created
\* and the debate runs (library code: returns or raises), the export data is
\* prepared and export_sdd is entered with max_retries left at its default.
\* An exception here is caught by the handler of line 247.
StartPhase4Export ==
    /\ workflow_pc = "phase4"
    /\ \E outcome \in {"returned", "DebateError"} :
        IF outcome = "returned"
        THEN /\ call' = <<[aggregated_data |-> prepare_export_data(triple[1]),
                           template |-> sdd_template,
                           format |-> "md",
                           enforce_quality_gate |-> config.phase4_enforce_quality_gate,
                           max_retries |-> DEFAULT_MAX_RETRIES]>>
             /\ pc' = "entry"
             /\ workflow_pc' = "export"
             /\ UNCHANGED <<parsed_result, workflow_error>>
        ELSE /\ IF CaughtByExceptException(outcome)
                THEN /\ parsed_result' = [parsed_result EXCEPT
                                            !.phase4_export = <<Phase4Failure(outcome)>>]
                     /\ workflow_pc' = "return"
                     /\ UNCHANGED workflow_error
                ELSE /\ workflow_pc' = "raised"
                     /\ workflow_error' = outcome
                     /\ UNCHANGED parsed_result
             /\ UNCHANGED <<call, pc>>
    /\ UNCHANGED <<retry, mock_content, quality_report, final_content, attempts,
                   files, result, error, config, sdd_template,
                   report_vars, validator_vars, orchestrator_vars>>

\* lines 240-252 and 159: export_sdd has returned or raised; the dict of the
\* try body or of the handler becomes parsed_result['phase4_export']
FinishPhase4Export ==
    /\ workflow_pc = "export"
    /\ pc \in {"returned", "raised"}
    /\ IF pc = "returned"
       THEN /\ parsed_result' = [parsed_result EXCEPT !.phase4_export = <<Phase4Success>>]
            /\ workflow_pc' = "return"
            /\ UNCHANGED workflow_error
       ELSE IF CaughtByExceptException(error)
       THEN /\ parsed_result' = [parsed_result EXCEPT
                                    !.phase4_export = <<Phase4Failure(error)>>]
            /\ workflow_pc' = "return"
            /\ UNCHANGED workflow_error
       ELSE /\ workflow_pc' = "raised"
            /\ workflow_error' = error
            /\ UNCHANGED parsed_result
    /\ UNCHANGED <<config, sdd_template,
                   report_vars, export_vars, validator_vars, orchestrator_vars>>

\* line 162: return parsed_result
ReturnParsedResult ==
    /\ workflow_pc = "return"
    /\ workflow_pc' = "returned"
    /\ UNCHANGED <<config, sdd_template, parsed_result, workflow_error,
                   report_vars, export_vars, validator_vars, orchestrator_vars>>

WorkflowConfigs ==
    [enable_phase4_export : BOOLEAN, phase4_enforce_quality_gate : BOOLEAN]

WorkflowInit ==
    /\ config \in WorkflowConfigs
    /\ sdd_template \in Templates
    /\ workflow_pc = "start"
    /\ parsed_result = [validation |-> <<>>, phase4_export |-> <<>>]
    /\ workflow_error = "none"
    /\ crew = <<>>
    /\ kickoffs = 0
    /\ last_call = Called("__init__", FALSE, "returned")
    /\ ReportIdle
    /\ ExportIdle
    /\ ValidatorIdle

WorkflowNext ==
    \/ RunCrew
    \/ ParseWorkflowResult
    \/ ValidateParsedResult
    \/ StartPhase4Export
    \/ RenderTemplate
    \/ GateAttempt
    \/ InjectBadge
    \/ WriteDocument
    \/ WriteQualityReport
    \/ Return
    \/ FinishPhase4Export
    \/ ReturnParsedResult

WorkflowSpec == WorkflowInit /\ [][WorkflowNext]_vars

\* ========================================================================
\* Claims
\* ========================================================================
Terminated == pc \in {"returned", "raised"}

\* what the gate says of the call's data, whether or not it is ever asked
GateVerdict ==
    passed_quality_gate(
        validate_quality_gate(mock_content[1], Extracted(call[1].aggregated_data))[1])

\* C1: with enforce_quality_gate on and data that does not pass the gate,
\* export_sdd ends with QualityGateError after exactly max_retries gate
\* evaluations, for every value of max_retries.
C1_RaisesAfterMaxRetries ==
    (Terminated /\ call[1].enforce_quality_gate /\ mock_content # <<>> /\ ~GateVerdict)
        => (error = "QualityGateError" /\ Len(attempts) = call[1].max_retries)

\* C2: with enforce_quality_gate on, a file (document or sidecar) exists only
\* if the last quality report passed the gate; a run that ended with
\* QualityGateError has written no file.
C2_WritesOnlyAfterPass ==
    /\ (call[1].enforce_quality_gate
            /\ (files.document # <<>> \/ files.quality_report # <<>>))
        => (attempts # <<>>
            /\ attempts[Len(attempts)].depth_score >= 80
            /\ attempts[Len(attempts)].edge_case_coverage >= 5
            /\ attempts[Len(attempts)].technical_feasibility >= 10000
            /\ attempts[Len(attempts)].logic_consistency = 0
            /\ attempts[Len(attempts)].ai_speak_instances = 0)
    /\ error = "QualityGateError"
        => (files.document = <<>> /\ files.quality_report = <<>>)

C2_Witness ==
    /\ call[1].enforce_quality_gate
    /\ pc = "returned"
    /\ files.document # <<>>
    /\ files.quality_report # <<>>
    /\ result[1].passed

\* C3: with enforce_quality_gate off, once the first quality report has
\* failed the gate no second evaluation is made, whatever max_retries is,
\* nothing is raised, the call goes on to publish, and what it returns has
\* passed = FALSE with both files written.
C3_SoftPassPublishesOnce ==
    (~call[1].enforce_quality_gate /\ attempts # <<>> /\ ~passed_quality_gate(attempts[1]))
        => /\ Len(attempts) = 1
           /\ error = "none"
           /\ pc \in {"publish", "write_document", "write_report", "return", "returned"}
           /\ pc = "returned"
                => /\ result[1].passed = FALSE
                   /\ files.document # <<>>
                   /\ files.quality_report # <<>>

C3_Witness ==
    /\ ~call[1].enforce_quality_gate
    /\ call[1].max_retries = MaxRetries
    /\ pc = "returned"
    /\ Len(attempts) = 1
    /\ result[1].passed = FALSE
    /\ files.document # <<>>

\* C4: the value read from passed_quality_gate is TRUE exactly when
\* depth_score >= 8.0, edge_case_coverage >= 5, technical_feasibility >= 100.0,
\* logic_consistency = 0 and ai_speak_instances = 0.
C4_PassedIffAllThresholds ==
    seen_passed # <<>>
        => (seen_passed[1] <=> (/\ report[1].depth_score >= 80
                                /\ report[1].edge_case_coverage >= 5
                                /\ report[1].technical_feasibility >= 10000
                                /\ report[1].logic_consistency = 0
                                /\ report[1].ai_speak_instances = 0))

C4_Witness ==
    /\ seen_passed = <<TRUE>>
    /\ report[1].depth_score = 80
    /\ report[1].edge_case_coverage = 5

\* C5: passed_quality_gate is TRUE exactly when failure_reasons is empty.
C5_PassedIffNoReasons ==
    (seen_passed # <<>> /\ seen_reasons # <<>>)
        => (seen_passed[1] <=> (seen_reasons[1] = <<>>))

C5_Witness ==
    /\ seen_passed = <<FALSE>>
    /\ seen_reasons # <<>>
    /\ Len(seen_reasons[1]) = 1
    /\ report[1].technical_feasibility = 9500

\* C6: failure_reasons holds exactly one entry for each violated threshold
\* and nothing else; a report violating only the depth threshold gives one
\* entry, which mentions depth_score.
C6_OneReasonPerViolation ==
    seen_reasons # <<>>
        => LET rs == seen_reasons[1]
               r == report[1]
               N(text) == Cardinality({i \in 1..Len(rs) : rs[i].text = text})
               One(violated) == IF violated THEN 1 ELSE 0
           IN  /\ N("depth_score") = One(r.depth_score < 80)
               /\ N("edge_cases") = One(r.edge_case_coverage < 5)
               /\ N("Technical feasibility") = One(r.technical_feasibility < 10000)
               /\ N("logic contradictions") = One(r.logic_consistency # 0)
               /\ N("AI-speak instances") = One(r.ai_speak_instances # 0)
               /\ Len(rs) = N("depth_score") + N("edge_cases") + N("Technical feasibility")
                            + N("logic contradictions") + N("AI-speak instances")
               /\ (/\ r.depth_score < 80
                   /\ r.edge_case_coverage >= 5
                   /\ r.technical_feasibility >= 10000
                   /\ r.logic_consistency = 0
                   /\ r.ai_speak_instances = 0)
                    => (Len(rs) = 1 /\ rs[1].text = "depth_score")

C6_Witness ==
    /\ seen_reasons # <<>>
    /\ report[1].depth_score = 75
    /\ report[1].edge_case_coverage = 6
    /\ report[1].technical_feasibility = 10000
    /\ report[1].logic_consistency = 0
    /\ report[1].ai_speak_instances = 0
    /\ seen_reasons[1] = <<Reason("depth_score", 75)>>

\* The weighted sum of gate.py 64-70 over record f, in 1/10000.
WeightedSum4(f) ==
    400 * f.depth_score
    + (IF f.edge_case_coverage >= 5 THEN 25000 ELSE 5000 * f.edge_case_coverage)
    + 2 * f.technical_feasibility
    + (IF f.logic_consistency >= 50 THEN 0 ELSE 10000 - 200 * f.logic_consistency)
    + (IF f.ai_speak_instances >= 5 THEN 0 ELSE 2500 - 500 * f.ai_speak_instances)

\* m (hundredths) is x4 (1/10000) rounded to two decimals
IsRounded(m, x4) == 100 * m - 50 <= x4 /\ x4 <= 100 * m + 50

\* C7: a constructed report's maturity_score is the weighted sum of the five
\* inputs rounded to two decimals, whatever maturity_score the caller passed;
\* inputs 8.5, 6, 100.0, 0, 0 give 9.15.
C7_MaturityIsWeightedSum ==
    construct = "ok"
        => /\ IsRounded(report[1].maturity_score, WeightedSum4(kwargs))
           /\ (/\ kwargs.depth_score = 85
               /\ kwargs.edge_case_coverage = 6
               /\ kwargs.technical_feasibility = 10000
               /\ kwargs.logic_consistency = 0
               /\ kwargs.ai_speak_instances = 0)
                => report[1].maturity_score = 915

C7_Witness ==
    /\ construct = "ok"
    /\ kwargs.maturity_score = 500
    /\ kwargs.depth_score = 85
    /\ kwargs.edge_case_coverage = 6
    /\ kwargs.technical_feasibility = 10000
    /\ kwargs.logic_consistency = 0
    /\ kwargs.ai_speak_instances = 0
    /\ report[1].maturity_score = 915

OutOfRange(k) ==
    \/ k.depth_score < 0 \/ k.depth_score > 100
    \/ k.technical_feasibility < 0 \/ k.technical_feasibility > 10000
    \/ k.edge_case_coverage < 0
    \/ k.logic_consistency < 0
    \/ k.ai_speak_instances < 0

\* C9: a construction with any of the five inputs out of range ends in
\* ValidationError and leaves no report (no value is clamped into range).
C9_OutOfRangeRejected ==
    (construct # "pending" /\ OutOfRange(kwargs))
        => (construct = "ValidationError" /\ report = <<>>)

C9_Witness ==
    /\ construct = "ValidationError"
    /\ kwargs.depth_score = 105
    /\ kwargs.edge_case_coverage = 5
    /\ kwargs.technical_feasibility = 10000
    /\ kwargs.logic_consistency = 0
    /\ kwargs.ai_speak_instances = 0

\* C10: a construction with all five inputs in range succeeds, and the
\* derived maturity_score lies in [0, 10].
C10_InRangeConstructs ==
    (construct # "pending" /\ ~OutOfRange(kwargs))
        => /\ construct = "ok"
           /\ report # <<>>
           /\ report[1].maturity_score >= 0
           /\ report[1].maturity_score <= 1000

C10_Witness ==
    /\ construct = "ok"
    /\ kwargs.depth_score = 100
    /\ kwargs.technical_feasibility = 10000
    /\ kwargs.maturity_score = 1100
    /\ report[1].maturity_score = 975

\* the maturity_score of the report built from kwargs k, when it can be built
MaturityOf(k) == QualityGateReport(k)[1].maturity_score

\* C11: with the other four inputs fixed, a larger depth_score never gives a
\* smaller maturity_score, and a larger logic_consistency or a larger
\* ai_speak_instances never gives a larger one.
C11_MaturityMonotone ==
    construct = "ok"
        => /\ \A d \in DepthValues :
                LET k == [kwargs EXCEPT !.depth_score = d]
                IN  (d > kwargs.depth_score /\ QualityGateReport(k) # <<>>)
                        => MaturityOf(k) >= report[1].maturity_score
           /\ \A l \in ContradictionValues :
                LET k == [kwargs EXCEPT !.logic_consistency = l]
                IN  (l > kwargs.logic_consistency /\ QualityGateReport(k) # <<>>)
                        => MaturityOf(k) <= report[1].maturity_score
           /\ \A a \in -1..MaxAiSpeak :
                LET k == [kwargs EXCEPT !.ai_speak_instances = a]
                IN  (a > kwargs.ai_speak_instances /\ QualityGateReport(k) # <<>>)
                        => MaturityOf(k) <= report[1].maturity_score

C11_Witness ==
    /\ construct = "ok"
    /\ kwargs.depth_score = 75
    /\ kwargs.logic_consistency = 10
    /\ kwargs.ai_speak_instances = 1
    /\ MaturityOf([kwargs EXCEPT !.depth_score = 80]) > report[1].maturity_score
    /\ MaturityOf([kwargs EXCEPT !.logic_consistency = 20]) < report[1].maturity_score
    /\ MaturityOf([kwargs EXCEPT !.ai_speak_instances = 2]) < report[1].maturity_score
    /\ MaturityOf([kwargs EXCEPT !.logic_consistency = 60])
           = MaturityOf([kwargs EXCEPT !.logic_consistency = 50])

\* C12: is_valid is TRUE exactly when the happy path has at least 3 steps,
\* both stress reports have at least 5 edge cases, and the resilience and the
\* coverage score of both reports are at least 70.
C12_ValidIffAllErrorChecksPass ==
    validator_result # <<>>
        => LET t == triple[1]
               b == t.business_exceptions
               x == t.technical_edge_cases
           IN  validator_result[1].is_valid
                   <=> /\ Len(t.happy_path.steps) >= 3
                       /\ Len(b.edge_cases) >= 5
                       /\ Len(x.edge_cases) >= 5
                       /\ b.resilience_score >= 70
                       /\ b.coverage_score >= 70
                       /\ x.resilience_score >= 70
                       /\ x.coverage_score >= 70

C12_Witness ==
    /\ validator_result # <<>>
    /\ ~validator_result[1].is_valid
    /\ Len(triple[1].happy_path.steps) = 3
    /\ Len(triple[1].business_exceptions.edge_cases) = 5
    /\ Len(triple[1].technical_edge_cases.edge_cases) = 5
    /\ triple[1].business_exceptions.resilience_score = 70
    /\ triple[1].business_exceptions.coverage_score = 69
    /\ triple[1].technical_edge_cases.resilience_score = 70
    /\ triple[1].technical_edge_cases.coverage_score = 70

\* C13: the verdict of a triple is the verdict of the triple with the same
\* step count, edge-case counts and scores whose edge cases are all plain (no
\* technical keyword, no overlap), so two triples agreeing on those numbers
\* get the same is_valid; and a triple that passes the error checks while a
\* business edge case mentions 'database' is valid with a non-empty issue list.
C13_WarningsNeverChangeVerdict ==
    validator_result # <<>>
        => LET t == triple[1]
               r == validator_result[1]
               b == t.business_exceptions
               x == t.technical_edge_cases
               plain == [t EXCEPT
                           !.business_exceptions.edge_cases = [i \in 1..Len(@) |-> BizFiller],
                           !.technical_edge_cases.edge_cases = [i \in 1..Len(@) |-> TechFiller]]
               passes == /\ Len(t.happy_path.steps) >= 3
                         /\ Len(b.edge_cases) >= 5 /\ Len(x.edge_cases) >= 5
                         /\ b.resilience_score >= 70 /\ b.coverage_score >= 70
                         /\ x.resilience_score >= 70 /\ x.coverage_score >= 70
               leaks == \E i \in 1..Len(b.edge_cases) :
                           Contains(LowerText(b.edge_cases[i].description),
                                    <<"d", "a", "t", "a", "b", "a", "s", "e">>)
           IN  /\ r.is_valid = validate_hierarchical_result(plain).is_valid
               /\ (passes /\ leaks) => (r.is_valid /\ r.issues # <<>>)

C13_Witness ==
    /\ validator_result # <<>>
    /\ validator_result[1].is_valid
    /\ \E i \in 1..Len(validator_result[1].issues) :
          validator_result[1].issues[i].kind = "keywords"
    /\ \E i \in 1..Len(validator_result[1].issues) :
          validator_result[1].issues[i].kind = "overlap"

\* C14: the issue list holds one error entry per violated check among the
\* seven error checks, whatever the other checks gave, and with fewer than 3
\* steps its first entry is the step-count error.
C14_EveryCheckReported ==
    validator_result # <<>>
        => LET t == triple[1]
               issues == validator_result[1].issues
               b == t.business_exceptions
               x == t.technical_edge_cases
               violated == B(Len(t.happy_path.steps) < 3)
                           + B(Len(b.edge_cases) < 5) + B(b.resilience_score < 70)
                           + B(b.coverage_score < 70)
                           + B(Len(x.edge_cases) < 5) + B(x.resilience_score < 70)
                           + B(x.coverage_score < 70)
               errors == {i \in 1..Len(issues) :
                            issues[i].kind \in {"steps", "edge_cases", "resilience", "coverage"}}
           IN  /\ Cardinality(errors) = violated
               /\ Len(t.happy_path.steps) < 3
                    => /\ issues # <<>>
                       /\ issues[1].kind = "steps"
                       /\ issues[1].got = Len(t.happy_path.steps)

C14_Witness ==
    /\ validator_result # <<>>
    /\ Len(triple[1].happy_path.steps) = 2
    /\ Len(validator_result[1].issues) >= 7
    /\ validator_result[1].issues[1].kind = "steps"
    /\ validator_result[1].issues[7].kind = "coverage"
    /\ validator_result[1].issues[7].report = "technical"

\* C15: when export_sdd has returned, 'passed' is passed_quality_gate of the
\* returned report, the file name says PASSED exactly when passed is TRUE and
\* FAILED otherwise, and both the document and the JSON sidecar are written.
C15_ReturnAgreesWithFiles ==
    pc = "returned"
        => LET r == result[1]
               q == r.quality_report
           IN  /\ q = attempts[Len(attempts)]
               /\ r.passed <=> (/\ q.depth_score >= 80
                                /\ q.edge_case_coverage >= 5
                                /\ q.technical_feasibility >= 10000
                                /\ q.logic_consistency = 0
                                /\ q.ai_speak_instances = 0)
               /\ r.file_path.status = (IF r.passed THEN "PASSED" ELSE "FAILED")
               /\ files.document # <<>>
               /\ files.document[1].name = r.file_path
               /\ files.quality_report # <<>>
               /\ files.quality_report[1].content = q

C15_Witness ==
    /\ pc = "returned"
    /\ ~result[1].passed
    /\ result[1].file_path.status = "FAILED"
    /\ files.quality_report # <<>>

\* C16: the content with the badge is the rendered content with one element,
\* the badge, added; it stands directly after the first line starting with
\* '# ' when there is one; dropping it gives the rendered content back.
C16_BadgeInsertedAfterFirstHeading ==
    final_content # <<>>
        => LET c == mock_content[1]
               f == final_content[1]
               badges == {k \in 1..Len(f) : f[k].badge # <<>>}
               heads == {i \in 1..Len(c) : c[i].text = "# F"}
           IN  /\ Len(f) = Len(c) + 1
               /\ Cardinality(badges) = 1
               /\ \A k \in badges :
                    /\ SubSeq(f, 1, k - 1) \o SubSeq(f, k + 1, Len(f)) = c
                    /\ heads # {}
                        => /\ k - 1 \in heads
                           /\ \A i \in heads : i >= k - 1

C16_Witness ==
    /\ final_content # <<>>
    /\ Len(mock_content[1]) = 3
    /\ mock_content[1][1].text = "# F"
    /\ mock_content[1][3].text = "# F"
    /\ final_content[1][2].badge # <<>>

\* C17: a call without a non-empty feature_name ends in ValueError, and one
\* whose template names a placeholder that is no key of aggregated_data ends
\* in KeyError; either way no gate evaluation was made, nothing was rendered
\* and no file was written.
C17_BadInputFailsFirst ==
    LET d == call[1].aggregated_data
        t == call[1].template
        unknown == \E i \in 1..Len(t) : t[i] = "Owner: {owner}"
    IN  (pc # "entry" /\ (d.feature_name = "" \/ unknown))
            => /\ pc = "raised"
               /\ error = (IF d.feature_name = "" THEN "ValueError" ELSE "KeyError")
               /\ mock_content = <<>>
               /\ attempts = <<>>
               /\ quality_report = <<>>
               /\ files.document = <<>>
               /\ files.quality_report = <<>>
               /\ result = <<>>

C17_Witness ==
    /\ pc = "raised"
    /\ error = "KeyError"
    /\ call[1].aggregated_data.feature_name = "F"

\* C18: the technical_feasibility of a report is 100 * feasible / total
\* rounded to two decimals, total being the tech-stack entries plus the edge
\* cases and feasible the dict entries with a non-empty rationale plus the
\* edge cases with a mitigation; it is 0 when total = 0, and within [0, 100].
C18_FeasibilityIsRoundedRatio ==
    attempts # <<>>
        => LET ec == call[1].aggregated_data.edge_cases
               ts == call[1].aggregated_data.tech_stack
               total == Len(ts) + Len(ec)
               feasible == Cardinality({i \in 1..Len(ts) : ts[i].is_dict /\ ts[i].rationale})
                           + Cardinality({i \in 1..Len(ec) : ec[i].mitigation})
               f == attempts[1].technical_feasibility
           IN  /\ f >= 0 /\ f <= 10000
               /\ total = 0 => f = 0
               /\ total > 0 => /\ 2 * (total * f - 10000 * feasible) <= total
                               /\ 2 * (10000 * feasible - total * f) <= total

C18_Witness ==
    /\ attempts # <<>>
    /\ Len(call[1].aggregated_data.tech_stack) = 2
    /\ Len(call[1].aggregated_data.edge_cases) = 5
    /\ attempts[1].technical_feasibility = 7143
C20_OneOverlapWarningPerTechnicalCase ==
    validator_result # <<>>
        => LET biz == triple[1].business_exceptions.edge_cases
               tech == triple[1].technical_edge_cases.edge_cases
               issues == validator_result[1].issues
               ov == SelectSeq(issues, LAMBDA e : e.kind = "overlap")
               Shares(n, i) ==
                   Cardinality(WordSet(LowerText(tech[n].description))
                               \cap WordSet(LowerText(biz[i].description))) > 3
               matched == {n \in 1..Len(tech) : \E i \in 1..Len(biz) : Shares(n, i)}
           IN  /\ Len(ov) <= Len(tech)
               /\ Len(ov) = Cardinality(matched)
               /\ \A k \in 1..Len(ov) :
                    \E n \in matched :
                        /\ Cardinality({m \in matched : m <= n}) = k
                        /\ ov[k].tech = tech[n].description
                        /\ \E i \in 1..Len(biz) :
                              /\ Shares(n, i)
                              /\ \A j \in 1..(i - 1) : ~Shares(n, j)
                              /\ ov[k].biz = LowerText(biz[i].description)

C20_Witness ==
    /\ validator_result # <<>>
    /\ triple[1].business_exceptions.edge_cases[1] = BizRefund
    /\ triple[1].business_exceptions.edge_cases[2] = BizDeclined
    /\ triple[1].technical_edge_cases.edge_cases[1] = TechThree
    /\ triple[1].technical_edge_cases.edge_cases[2] = TechFour
    /\ \E i \in 1..Len(validator_result[1].issues) :
          /\ validator_result[1].issues[i].kind = "overlap"
          /\ validator_result[1].issues[i].tech = TechFour.description
          /\ validator_result[1].issues[i].biz = LowerText(BizRefund.description)
          /\ i = Len(validator_result[1].issues)
\* C21 (as claimed): there is at most one keyword warning, it belongs to the
\* business report, it is there exactly when the description or the
\* trigger_condition of some business edge case contains a keyword, and it
\* lists the keywords so contained, each once.
C21_KeywordWarningIffFieldContains ==
    validator_result # <<>>
        => LET biz == triple[1].business_exceptions.edge_cases
               issues == validator_result[1].issues
               kw == SelectSeq(issues, LAMBDA e : e.kind = "keywords")
               InField(k) ==
                   \E i \in 1..Len(biz) :
                       \/ Contains(LowerText(biz[i].description), k)
                       \/ Contains(LowerText(biz[i].trigger_condition), k)
               matched == {k \in {TECHNICAL_KEYWORDS[j] : j \in 1..Len(TECHNICAL_KEYWORDS)} :
                              InField(k)}
           IN  /\ Len(kw) <= 1
               /\ \A n \in 1..Len(kw) : kw[n].report = "business"
               /\ Len(kw) = 1 <=> matched # {}
               /\ Len(kw) = 1
                    => /\ {kw[1].keywords[j] : j \in 1..Len(kw[1].keywords)} = matched
                       /\ Len(kw[1].keywords) = Cardinality(matched)

\* C21 (amended): as above, with the keywords looked for in the text
\* description + " " + trigger_condition of each business edge case, so that
\* a keyword of two words may lie across the two fields.
C21_KeywordWarningIffJoinedTextContains ==
    validator_result # <<>>
        => LET biz == triple[1].business_exceptions.edge_cases
               issues == validator_result[1].issues
               kw == SelectSeq(issues, LAMBDA e : e.kind = "keywords")
               InJoined(k) ==
                   \E i \in 1..Len(biz) :
                       Contains(LowerText(biz[i].description \o <<" ">>
                                          \o biz[i].trigger_condition), k)
               matched == {k \in {TECHNICAL_KEYWORDS[j] : j \in 1..Len(TECHNICAL_KEYWORDS)} :
                              InJoined(k)}
           IN  /\ Len(kw) <= 1
               /\ \A n \in 1..Len(kw) : kw[n].report = "business"
               /\ Len(kw) = 1 <=> matched # {}
               /\ Len(kw) = 1
                    => /\ {kw[1].keywords[j] : j \in 1..Len(kw[1].keywords)} = matched
                       /\ Len(kw[1].keywords) = Cardinality(matched)

C21_Witness ==
    /\ validator_result # <<>>
    /\ triple[1].business_exceptions.edge_cases[1] = BizRace
    /\ triple[1].business_exceptions.edge_cases[2] = BizLeak
    /\ triple[1].business_exceptions.edge_cases[3] = BizLeak
    /\ triple[1].technical_edge_cases.edge_cases[1] = TechFour
    /\ Len(SelectSeq(validator_result[1].issues, LAMBDA e : e.kind = "keywords")) = 1
    /\ \E n \in 1..Len(validator_result[1].issues) :
          /\ validator_result[1].issues[n].kind = "keywords"
          /\ Len(validator_result[1].issues[n].keywords) = 4
\* C22: the happy-path description point is in the depth score exactly when
\* some step description has more than 10 words; a description of 11 words
\* earns it.
C22_DescriptionPointIffOverTenWords ==
    attempts # <<>>
        => LET d == Extracted(call[1].aggregated_data)
               hp == d.happy_path
               blank == [d EXCEPT !.happy_path =
                            [i \in 1..Len(hp) |-> [hp[i] EXCEPT !.description = 0]]]
               point == IF \E i \in 1..Len(hp) : hp[i].description > 10 THEN 10 ELSE 0
           IN  attempts[1].depth_score - calculate_depth_score(blank) = point

\* C23: logic_consistency is the number of edge cases whose scenario contains
\* 'fail' when some happy-path action contains 'success', and 0 otherwise; it
\* is at most the number of edge cases, whatever the content is.
C23_ContradictionsCountFailingCases ==
    \A n \in 1..Len(attempts) :
        LET hp == call[1].aggregated_data.happy_path
            ec == call[1].aggregated_data.edge_cases
            failing == Cardinality({i \in 1..Len(ec) : ec[i].scenario_has_fail})
            success == \E i \in 1..Len(hp) : hp[i].action_has_success
        IN  /\ attempts[n].logic_consistency = 10 * (IF success THEN failing ELSE 0)
            /\ attempts[n].logic_consistency <= 10 * Len(ec)

C23_Witness ==
    /\ attempts # <<>>
    /\ attempts[1].logic_consistency = 10
    /\ Len(call[1].aggregated_data.edge_cases) = 5
    /\ mock_content[1][1].text = "Toi se ..."

\* C24: all gate evaluations of one call give the same report, none after
\* the first passes, and there is 1 evaluation when the gate passes or
\* enforcement is off, max_retries when it is on and the gate fails.
C24_EvaluationsRepeatTheFirst ==
    (Terminated /\ mock_content # <<>>)
        => /\ \A i \in 1..Len(attempts) : attempts[i] = attempts[1]
           /\ \A i \in 2..Len(attempts) :
                ~(/\ attempts[i].depth_score >= 80
                  /\ attempts[i].edge_case_coverage >= 5
                  /\ attempts[i].technical_feasibility >= 10000
                  /\ attempts[i].logic_consistency = 0
                  /\ attempts[i].ai_speak_instances = 0)
           /\ Len(attempts) = (IF GateVerdict \/ ~call[1].enforce_quality_gate
                               THEN 1 ELSE call[1].max_retries)

C26_ExportDepthAtMostEight ==
    \A n \in 1..Len(attempts) :
        LET d == call[1].aggregated_data
            q == attempts[n]
            passes == /\ q.depth_score >= 80
                      /\ q.edge_case_coverage >= 5
                      /\ q.technical_feasibility >= 10000
                      /\ q.logic_consistency = 0
                      /\ q.ai_speak_instances = 0
        IN  /\ q.depth_score <= 80
            /\ passes => /\ q.depth_score = 80
                         /\ Len(d.happy_path) >= 5
                         /\ Len(d.edge_cases) >= 5
                         /\ Len(d.tech_stack) >= 3

C26_Witness ==
    /\ pc = "returned"
    /\ result[1].passed
    /\ attempts[1].depth_score = 80
    /\ Len(call[1].aggregated_data.tech_stack) = 3
\* the place of an issue in the fixed order of the issue list
IssueRank(e) ==
    CASE e.kind = "steps" -> 1
      [] e.kind = "edge_cases" /\ e.report = "business" -> 2
      [] e.kind = "resilience" /\ e.report = "business" -> 3
      [] e.kind = "coverage" /\ e.report = "business" -> 4
      [] e.kind = "edge_cases" /\ e.report = "technical" -> 5
      [] e.kind = "resilience" /\ e.report = "technical" -> 6
      [] e.kind = "coverage" /\ e.report = "technical" -> 7
      [] e.kind = "keywords" -> 8
      [] e.kind = "overlap" -> 9
      [] OTHER -> 0

\* C27: in the issue list the errors come before the warnings, in the order
\* happy path, business report (edge-case count, resilience, coverage),
\* technical report (same order), keyword warning, overlap warnings; each of
\* the first eight occurs at most once and the overlap warnings follow the
\* order of the technical edge cases.
C27_IssuesInFixedOrder ==
    validator_result # <<>>
        => LET issues == validator_result[1].issues
               tech == triple[1].technical_edge_cases.edge_cases
               ov == SelectSeq(issues, LAMBDA e : e.kind = "overlap")
           IN  /\ \A i \in 1..Len(issues) : IssueRank(issues[i]) \in 1..9
               /\ \A i \in 1..Len(issues), j \in 1..Len(issues) :
                    i < j => /\ IssueRank(issues[i]) <= IssueRank(issues[j])
                             /\ IssueRank(issues[i]) < 9
                                  => IssueRank(issues[i]) < IssueRank(issues[j])
               /\ \E pos \in [1..Len(ov) -> 1..Len(tech)] :
                    /\ \A k \in 1..Len(ov) : tech[pos[k]].description = ov[k].tech
                    /\ \A k \in 1..(Len(ov) - 1) : pos[k] < pos[k + 1]

C27_Witness ==
    /\ validator_result # <<>>
    /\ Len(validator_result[1].issues) = 10
    /\ validator_result[1].issues[7].kind = "coverage"
    /\ validator_result[1].issues[8].kind = "keywords"
    /\ validator_result[1].issues[9].kind = "overlap"
    /\ validator_result[1].issues[10].kind = "overlap"

C30_MaturityBounds ==
    construct = "ok" =>
        /\ report[1].maturity_score <= 975
        /\ passed_quality_gate(report[1]) => report[1].maturity_score >= 895

\* A passing report that sits exactly on the lower bound.
C30_Witness ==
    /\ construct = "ok"
    /\ passed_quality_gate(report[1])
    /\ report[1].depth_score = DEPTH_SCORE_MIN
    /\ report[1].maturity_score = 895

====
